---- MODULE Spec2Model ----
(***************************************************************************)
(* Client-side session and request gateway of the playlist converter       *)
(* front end (token-based App component): token storage in localStorage,   *)
(* the expiry policy, the axios request interceptor, the OAuth callback    *)
(* route, and MainApp's fetchAPI / checkAuthStatus / handleLogout /        *)
(* handleConvert handlers.                                                 *)
(*                                                                         *)
(* JavaScript strings are TLA+ strings; null / undefined / a missing       *)
(* localStorage entry is the reserved string NULL.  JavaScript numbers are *)
(* records [k, v] so that NaN (parseInt of a non-numeric string) is a      *)
(* value of the model.  An await is a step boundary: the synchronous part  *)
(* of a handler up to the dispatch of its request is one action, and the   *)
(* settling of the request together with the continuation of fetchAPI and  *)
(* of its caller is another.                                               *)
(***************************************************************************)
EXTENDS Integers, Sequences, FiniteSets, TLC

VARIABLES
    now,            \* Date.now(), in milliseconds
    localStorage,   \* the three persisted entries [at, rt, exp]
    route,          \* "home" | "away" (the browser has left for the backend)
    mounted,        \* MainApp's mount effects have run on this page
    historyState,   \* location.state.authError carried by the history entry
    isLoggedIn, userData, isAuthLoading, isConverting, error, results,
    inflight,       \* requests dispatched by this page and not yet settled
    last            \* observation of the step just taken

vars == <<now, localStorage, route, mounted, historyState, isLoggedIn, userData,
          isAuthLoading, isConverting, error, results, inflight, last>>

NULL == "<null>"

\* ------------------------------------------------------------- bounds
\* The last instant the clock reaches.
MaxNow == 62000
\* The instants at which something happens.  For a 61 s token issued at 0
\* (expiry 61000): just before the skew boundary, exactly on it, exactly at
\* expiry, and past expiry.
Instants == {0, 999, 1000, 61000, MaxNow}

\* ------------------------------------------------- JavaScript values
Falsy(s) == s = NULL \/ s = ""
Truthy(s) == ~Falsy(s)

Num(n) == [k |-> "num", v |-> n]
NaN == [k |-> "nan", v |-> 0]
NullNum == [k |-> "null", v |-> 0]
\* !x for a number-or-null: null, NaN and 0 are falsy
FalsyNum(x) == x.k # "num" \/ x.v = 0

Digits == <<"0", "1", "2", "3", "4", "5", "6", "7", "8", "9">>
IsDigit(c) == \E d \in 1..10 : Digits[d] = c
DigitVal(c) == (CHOOSE d \in 1..10 : Digits[d] = c) - 1
IsSpace(c) == c = " "

\* the value of the longest run of decimal digits of s that starts at
\* position i, given the value acc of the digits already read
RECURSIVE DigitRun(_, _, _)
DigitRun(s, i, acc) ==
    IF i <= Len(s) /\ IsDigit(SubSeq(s, i, i))
    THEN DigitRun(s, i + 1, acc * 10 + DigitVal(SubSeq(s, i, i)))
    ELSE acc

RECURSIVE SkipSpaces(_, _)
SkipSpaces(s, i) ==
    IF i <= Len(s) /\ IsSpace(SubSeq(s, i, i)) THEN SkipSpaces(s, i + 1) ELSE i

\* parseInt(s, 10): leading blanks, an optional sign, then decimal digits up
\* to the first other character; NaN when there is no digit
ParseInt(s) ==
    LET i == SkipSpaces(s, 1)
        neg == i <= Len(s) /\ SubSeq(s, i, i) = "-"
        signed == i <= Len(s) /\ SubSeq(s, i, i) \in {"-", "+"}
        j == IF signed THEN i + 1 ELSE i
    IN  IF j <= Len(s) /\ IsDigit(SubSeq(s, j, j))
        THEN Num((IF neg THEN -1 ELSE 1) * DigitRun(s, j, 0))
        ELSE NaN

RECURSIVE NatToString(_)
NatToString(n) ==
    IF n < 10 THEN Digits[n + 1]
    ELSE NatToString(n \div 10) \o Digits[(n % 10) + 1]

\* Number.prototype.toString
NumToString(x) ==
    IF x.k = "nan" THEN "NaN"
    ELSE IF x.v < 0 THEN "-" \o NatToString(-x.v)
    ELSE NatToString(x.v)

NumAdd(x, y) == IF x.k = "num" /\ y.k = "num" THEN Num(x.v + y.v) ELSE NaN
NumMul(x, y) == IF x.k = "num" /\ y.k = "num" THEN Num(x.v * y.v) ELSE NaN

\* str.replace(/_/g, ' ')
RECURSIVE ReplaceUnderscores(_)
ReplaceUnderscores(s) ==
    IF s = "" THEN ""
    ELSE (IF SubSeq(s, 1, 1) = "_" THEN " " ELSE SubSeq(s, 1, 1))
         \o ReplaceUnderscores(SubSeq(s, 2, Len(s)))

\* ------------------------------------------------------ token storage
EmptyStorage == [at |-> NULL, rt |-> NULL, exp |-> NULL]

\* variant: only the access token is required
storeTokens_accessOnly(ls, t, accessToken, refreshToken, expiresIn) ==
    IF Falsy(accessToken) THEN ls
    ELSE LET expiryTimestamp == NumAdd(Num(t), NumMul(ParseInt(expiresIn), Num(1000)))
         IN  [at |-> accessToken,
              rt |-> IF Truthy(refreshToken) THEN refreshToken ELSE NULL,
              exp |-> NumToString(expiryTimestamp)]

\* variant: without a refresh token the stored one is left in place
storeTokens_keepsRefresh(ls, t, accessToken, refreshToken, expiresIn) ==
    IF Falsy(accessToken) \/ Falsy(expiresIn) THEN ls
    ELSE LET expiryTimestamp == NumAdd(Num(t), NumMul(ParseInt(expiresIn), Num(1000)))
         IN  [at |-> accessToken,
              rt |-> IF Truthy(refreshToken) THEN refreshToken ELSE ls.rt,
              exp |-> NumToString(expiryTimestamp)]

\* storeTokens(accessToken, refreshToken, expiresIn) at time t
storeTokens(ls, t, accessToken, refreshToken, expiresIn) ==
    IF Falsy(accessToken) \/ Falsy(expiresIn) THEN ls
    ELSE LET expiryTimestamp == NumAdd(Num(t), NumMul(ParseInt(expiresIn), Num(1000)))
         IN  [at |-> accessToken,
              rt |-> IF Truthy(refreshToken) THEN refreshToken ELSE NULL,
              exp |-> NumToString(expiryTimestamp)]

\* what the call storeTokens(...) evaluates to for its caller: undefined,
\* after the bare return of the guard as after the last statement
storeTokensReturn(ls, t, accessToken, refreshToken, expiresIn) ==
    IF Falsy(accessToken) \/ Falsy(expiresIn) THEN NULL
    ELSE NULL

getAccessToken(ls) == ls.at
getRefreshToken(ls) == ls.rt
getExpiryTimestamp(ls) == IF Truthy(ls.exp) THEN ParseInt(ls.exp) ELSE NullNum

\* variant: the refresh token entry is left behind
clearTokens_keepsRefresh(ls) == [at |-> NULL, rt |-> ls.rt, exp |-> NULL]

clearTokens(ls) == [at |-> NULL, rt |-> NULL, exp |-> NULL]

\* the skew of the expiry policy, 60 * 1000 ms
SkewMs == 60000

\* variant: the skew boundary itself counts as not yet expired
isTokenExpired_edgeValid(ls, t) ==
    LET expiry == getExpiryTimestamp(ls)
    IN  IF FalsyNum(expiry) THEN TRUE ELSE t > expiry.v - SkewMs

\* isTokenExpired() at time t
isTokenExpired(ls, t) ==
    LET expiry == getExpiryTimestamp(ls)
    IN  IF FalsyNum(expiry) THEN TRUE ELSE t >= expiry.v - SkewMs

\* -------------------------------------------------- request interceptor
\* variant: the header is added whenever a token is stored
interceptRequest_anyToken(ls, t) ==
    LET token == getAccessToken(ls)
    IN  IF Truthy(token) THEN [ls |-> ls, hdr |-> "Bearer " \o token]
        ELSE [ls |-> ls, hdr |-> NULL]

\* variant: an expired token is left in the storage
interceptRequest_keepsExpired(ls, t) ==
    LET token == getAccessToken(ls)
    IN  IF Truthy(token) /\ ~isTokenExpired(ls, t)
        THEN [ls |-> ls, hdr |-> "Bearer " \o token]
        ELSE [ls |-> ls, hdr |-> NULL]

\* apiClient.interceptors.request.use at time t: the storage it leaves and
\* the Authorization header it puts on the request (NULL: none)
interceptRequest(ls, t) ==
    LET token == getAccessToken(ls)
    IN  IF Truthy(token) /\ ~isTokenExpired(ls, t)
        THEN [ls |-> ls, hdr |-> "Bearer " \o token]
        ELSE IF Truthy(token) /\ isTokenExpired(ls, t)
        THEN [ls |-> clearTokens(ls), hdr |-> NULL]
        ELSE [ls |-> ls, hdr |-> NULL]

Request(endpoint, hdr) == [endpoint |-> endpoint, hdr |-> hdr]
NoRequest == Request(NULL, NULL)

\* -------------------------------------------------- backend and transport
\* a response body; has = FALSE is an empty body (response.data falsy)
Body(user, success, data, err, message) ==
    [has |-> TRUE, user |-> user, success |-> success, data |-> data,
     error |-> err, message |-> message]
NoBody == [has |-> FALSE, user |-> NULL, success |-> FALSE, data |-> NULL,
           error |-> NULL, message |-> NULL]

Users == {"u1"}
Payloads == {"P1", "P2"}
\* the bodies the backend answers with: none, {user}, {success, data, error}
\* and {message, error}
Bodies ==
    {NoBody}
    \cup {Body(u, FALSE, NULL, NULL, NULL) : u \in Users}
    \cup {Body(NULL, s, d, e, NULL) : s \in BOOLEAN, d \in {NULL} \cup Payloads,
                                      e \in {NULL, "E1"}}
    \cup {Body(NULL, FALSE, NULL, e, m) : e \in {NULL, "E1"}, m \in {NULL, "M1"}}

ErrorStatuses == {401, 500}

\* what the awaited apiClient(config) settles with: a 2xx response, or an
\* axios error with err.response (non-2xx), with err.request only (nothing
\* came back), or with neither (the request could not be set up)
Response(ok, hasResponse, status, body, request, message) ==
    [ok |-> ok, hasResponse |-> hasResponse, status |-> status, body |-> body,
     request |-> request, message |-> message]
NothingSettled == Response(FALSE, FALSE, 0, NoBody, FALSE, NULL)

Responses ==
    {Response(TRUE, TRUE, 200, b, TRUE, NULL) : b \in Bodies}
    \cup {Response(FALSE, TRUE, st, b, TRUE, "Request failed with status code " \o NatToString(st)) :
            st \in ErrorStatuses, b \in Bodies}
    \cup {Response(FALSE, FALSE, 0, NoBody, TRUE, "Network Error"),
          Response(FALSE, FALSE, 0, NoBody, FALSE, "Invalid URL")}

\* ------------------------------------------------------- MainApp state
\* the state the handlers write, as one record
State(ls, li, ud, al, cv, er, rs) ==
    [ls |-> ls, isLoggedIn |-> li, userData |-> ud, isAuthLoading |-> al,
     isConverting |-> cv, error |-> er, results |-> rs]

Cur == State(localStorage, isLoggedIn, userData, isAuthLoading, isConverting,
             error, results)

\* useState initial values of MainApp
InitialState(ls) == State(ls, FALSE, NULL, TRUE, FALSE, NULL, NULL)

Commit(S) ==
    /\ localStorage' = S.ls
    /\ isLoggedIn' = S.isLoggedIn
    /\ userData' = S.userData
    /\ isAuthLoading' = S.isAuthLoading
    /\ isConverting' = S.isConverting
    /\ error' = S.error
    /\ results' = S.results

SessionExpiredMsg == "Your session has expired or is invalid. Please log in again."
NoResponseMsg == "No response received from server. Check network or server status."

\* the message fetchAPI's catch block computes for the axios error err
errorMessage(err) ==
    IF err.hasResponse /\ err.status = 401 THEN SessionExpiredMsg
    ELSE IF err.hasResponse /\ err.body.has
    THEN IF Truthy(err.body.message) THEN err.body.message
         ELSE IF Truthy(err.body.error) THEN err.body.error
         ELSE "Request failed with status " \o NatToString(err.status)
    ELSE IF err.request THEN NoResponseMsg
    ELSE err.message

\* variant: a 401 logs out but leaves the stored tokens
fetchAPI_keepsTokens(S, resp) ==
    IF resp.ok
    THEN [st |-> S, data |-> resp.body, msg |-> NULL, thrown |-> FALSE]
    ELSE LET S1 == IF resp.hasResponse /\ resp.status = 401
                   THEN [S EXCEPT !.isLoggedIn = FALSE, !.userData = NULL]
                   ELSE S
         IN  [st |-> [S1 EXCEPT !.error = errorMessage(resp),
                                !.isAuthLoading = FALSE,
                                !.isConverting = FALSE],
              data |-> NoBody,
              msg |-> errorMessage(resp),
              thrown |-> FALSE]

\* variant: a 401 removes the tokens but leaves the session logged in
fetchAPI_staysLoggedIn(S, resp) ==
    IF resp.ok
    THEN [st |-> S, data |-> resp.body, msg |-> NULL, thrown |-> FALSE]
    ELSE LET S1 == IF resp.hasResponse /\ resp.status = 401
                   THEN [S EXCEPT !.ls = clearTokens(S.ls)]
                   ELSE S
         IN  [st |-> [S1 EXCEPT !.error = errorMessage(resp),
                                !.isAuthLoading = FALSE,
                                !.isConverting = FALSE],
              data |-> NoBody,
              msg |-> errorMessage(resp),
              thrown |-> FALSE]

\* variant: no message is set for a failed call
fetchAPI_noBanner(S, resp) ==
    IF resp.ok
    THEN [st |-> S, data |-> resp.body, msg |-> NULL, thrown |-> FALSE]
    ELSE LET S1 == IF resp.hasResponse /\ resp.status = 401
                   THEN [S EXCEPT !.ls = clearTokens(S.ls),
                                  !.isLoggedIn = FALSE, !.userData = NULL]
                   ELSE S
         IN  [st |-> [S1 EXCEPT !.isAuthLoading = FALSE,
                                !.isConverting = FALSE],
              data |-> NoBody,
              msg |-> errorMessage(resp),
              thrown |-> FALSE]

\* variant: an error without a response and without a request is thrown on
\* to the caller
fetchAPI_rethrows(S, resp) ==
    IF resp.ok
    THEN [st |-> S, data |-> resp.body, msg |-> NULL, thrown |-> FALSE]
    ELSE IF ~resp.hasResponse /\ ~resp.request
    THEN [st |-> S, data |-> NoBody, msg |-> NULL, thrown |-> TRUE]
    ELSE LET S1 == IF resp.hasResponse /\ resp.status = 401
                   THEN [S EXCEPT !.ls = clearTokens(S.ls),
                                  !.isLoggedIn = FALSE, !.userData = NULL]
                   ELSE S
         IN  [st |-> [S1 EXCEPT !.error = errorMessage(resp),
                                !.isAuthLoading = FALSE,
                                !.isConverting = FALSE],
              data |-> NoBody,
              msg |-> errorMessage(resp),
              thrown |-> FALSE]

\* fetchAPI after its await: the state it leaves, what it returns
\* (data.has = FALSE: null or an empty body) and whether it threw instead of
\* returning (the try block holds the await, the catch block throws nothing)
fetchAPI(S, resp) ==
    IF resp.ok
    THEN [st |-> S, data |-> resp.body, msg |-> NULL, thrown |-> FALSE]
    ELSE LET S1 == IF resp.hasResponse /\ resp.status = 401
                   THEN [S EXCEPT !.ls = clearTokens(S.ls),
                                  !.isLoggedIn = FALSE, !.userData = NULL]
                   ELSE S
         IN  [st |-> [S1 EXCEPT !.error = errorMessage(resp),
                                !.isAuthLoading = FALSE,
                                !.isConverting = FALSE],
              data |-> NoBody,
              msg |-> errorMessage(resp),
              thrown |-> FALSE]

\* variant: the carried reason is shown but left in the history entry
authErrorEffect_keepsState(S, hs) ==
    IF Truthy(hs)
    THEN [st |-> [S EXCEPT !.error = hs], hs |-> hs, shown |-> hs]
    ELSE [st |-> S, hs |-> hs, shown |-> NULL]

\* MainApp's authError effect, given location.state.authError (hs): the state
\* it leaves, what window.history.replaceState leaves in the history entry,
\* and the reason it passed to setError (NULL: none)
authErrorEffect(S, hs) ==
    IF Truthy(hs)
    THEN [st |-> [S EXCEPT !.error = hs], hs |-> NULL, shown |-> hs]
    ELSE [st |-> S, hs |-> hs, shown |-> NULL]

\* variant: only the presence of a token is tested, not its expiry
checkAuthStatusStart_tokenOnly(S, t) ==
    LET S1 == [S EXCEPT !.isAuthLoading = TRUE, !.error = NULL]
        token == getAccessToken(S1.ls)
    IN  IF Falsy(token)
        THEN [st |-> [S1 EXCEPT !.ls = clearTokens(S1.ls), !.isLoggedIn = FALSE,
                                !.userData = NULL, !.isAuthLoading = FALSE],
              go |-> FALSE]
        ELSE [st |-> S1, go |-> TRUE]

\* checkAuthStatus before its await; go: the status request is to be made
checkAuthStatusStart(S, t) ==
    LET S1 == [S EXCEPT !.isAuthLoading = TRUE, !.error = NULL]
        token == getAccessToken(S1.ls)
    IN  IF Falsy(token) \/ isTokenExpired(S1.ls, t)
        THEN [st |-> [S1 EXCEPT !.ls = clearTokens(S1.ls), !.isLoggedIn = FALSE,
                                !.userData = NULL, !.isAuthLoading = FALSE],
              go |-> FALSE]
        ELSE [st |-> S1, go |-> TRUE]

\* variant: the session is marked logged in without taking the user record
checkAuthStatusResume_dropsUser(S, data) ==
    LET S1 == IF data.has /\ Truthy(data.user)
              THEN [S EXCEPT !.isLoggedIn = TRUE]
              ELSE [S EXCEPT !.ls = clearTokens(S.ls), !.isLoggedIn = FALSE,
                             !.userData = NULL]
    IN  [S1 EXCEPT !.isAuthLoading = FALSE]

\* variant: an answer without a user record logs out but keeps the tokens
checkAuthStatusResume_keepsTokens(S, data) ==
    LET S1 == IF data.has /\ Truthy(data.user)
              THEN [S EXCEPT !.isLoggedIn = TRUE, !.userData = data.user]
              ELSE [S EXCEPT !.isLoggedIn = FALSE, !.userData = NULL]
    IN  [S1 EXCEPT !.isAuthLoading = FALSE]

\* variant: any answer with a body logs in
checkAuthStatusResume_anyData(S, data) ==
    LET S1 == IF data.has
              THEN [S EXCEPT !.isLoggedIn = TRUE, !.userData = data.user]
              ELSE [S EXCEPT !.ls = clearTokens(S.ls), !.isLoggedIn = FALSE,
                             !.userData = NULL]
    IN  [S1 EXCEPT !.isAuthLoading = FALSE]

\* checkAuthStatus after fetchAPI('/auth/status') returned data
checkAuthStatusResume(S, data) ==
    LET S1 == IF data.has /\ Truthy(data.user)
              THEN [S EXCEPT !.isLoggedIn = TRUE, !.userData = data.user]
              ELSE [S EXCEPT !.ls = clearTokens(S.ls), !.isLoggedIn = FALSE,
                             !.userData = NULL]
    IN  [S1 EXCEPT !.isAuthLoading = FALSE]

\* checkAuthStatus's catch block, entered if fetchAPI threw; the isLoggedIn
\* it tests is the one of the render whose effect called checkAuthStatus,
\* the first
checkAuthStatusCatch(S) ==
    LET S1 == IF InitialState(S.ls).isLoggedIn
              THEN [S EXCEPT !.isLoggedIn = FALSE, !.userData = NULL]
              ELSE S
    IN  [S1 EXCEPT !.isAuthLoading = FALSE]

\* variant: logout leaves the conversion result on screen
handleLogout_keepsResults(S) ==
    [S EXCEPT !.ls = clearTokens(S.ls), !.isLoggedIn = FALSE, !.userData = NULL,
              !.error = NULL]

\* variant: logout leaves the user record in place
handleLogout_keepsUser(S) ==
    [S EXCEPT !.ls = clearTokens(S.ls), !.isLoggedIn = FALSE,
              !.error = NULL, !.results = NULL]

\* handleLogout
handleLogout(S) ==
    [S EXCEPT !.ls = clearTokens(S.ls), !.isLoggedIn = FALSE, !.userData = NULL,
              !.error = NULL, !.results = NULL]

\* variant: the form can be submitted without a session
submitEnabled_always(S) == ~S.isConverting

\* the conversion form's inputs and submit button are enabled (the playlist
\* URL the button also asks for is taken as typed in)
submitEnabled(S) == ~(~S.isLoggedIn \/ S.isConverting)

\* variant: a new submission leaves the previous result on screen
handleConvertStart_keepsResults(S) ==
    [S EXCEPT !.isConverting = TRUE, !.error = NULL]

\* handleConvert before its await
handleConvertStart(S) ==
    [S EXCEPT !.isConverting = TRUE, !.error = NULL, !.results = NULL]

\* variant: a conversion that got data leaves the in-progress flag set
handleConvertResume_staysBusy(S, data) ==
    IF data.has /\ data.success
    THEN [S EXCEPT !.results = data.data]
    ELSE IF data.has /\ Truthy(data.error)
    THEN [S EXCEPT !.error = data.error,
                   !.results = IF Truthy(data.data) THEN data.data
                               ELSE S.results]
    ELSE S

\* handleConvert after fetchAPI('/convert', ...) returned data (the form
\* fields it resets are not part of the model)
handleConvertResume(S, data) ==
    LET S1 == IF data.has /\ data.success
              THEN [S EXCEPT !.results = data.data]
              ELSE IF data.has /\ Truthy(data.error)
              THEN [S EXCEPT !.error = data.error,
                             !.results = IF Truthy(data.data) THEN data.data
                                         ELSE S.results]
              ELSE S
    IN  [S1 EXCEPT !.isConverting = FALSE]

\* handleConvert's catch block, entered if fetchAPI threw
handleConvertCatch(S) == [S EXCEPT !.isConverting = FALSE]

\* ------------------------------------------------------- OAuth callback
InvalidCallbackMsg == "Invalid authentication callback received."
MissingTokensMsg == "Authentication callback did not provide necessary tokens or error information."

\* the parameters of the URL fragment, as params.get(...) returns them
Params(accessToken, refreshToken, expiresIn, err) ==
    [access_token |-> accessToken, refresh_token |-> refreshToken,
     expires_in |-> expiresIn, error |-> err]

\* variant: tokens in the fragment are stored before error is looked at
authCallback_tokensFirst(ls, t, params) ==
    IF Truthy(params.access_token) /\ Truthy(params.expires_in)
    THEN [ls |-> storeTokens(ls, t, params.access_token, params.refresh_token,
                             params.expires_in),
          authError |-> NULL,
          carried |-> NULL]
    ELSE IF Truthy(params.error)
    THEN [ls |-> clearTokens(ls),
          authError |-> "Login failed: " \o ReplaceUnderscores(params.error)
                        \o ". Please try again.",
          carried |-> "Login failed: " \o ReplaceUnderscores(params.error) \o "."]
    ELSE [ls |-> ls,
          authError |-> MissingTokensMsg,
          carried |-> InvalidCallbackMsg]

\* variant: a fragment with neither error nor tokens also clears the storage
authCallback_malformedClears(ls, t, params) ==
    IF Truthy(params.error)
    THEN [ls |-> clearTokens(ls),
          authError |-> "Login failed: " \o ReplaceUnderscores(params.error)
                        \o ". Please try again.",
          carried |-> "Login failed: " \o ReplaceUnderscores(params.error) \o "."]
    ELSE IF Truthy(params.access_token) /\ Truthy(params.expires_in)
    THEN [ls |-> storeTokens(ls, t, params.access_token, params.refresh_token,
                             params.expires_in),
          authError |-> NULL,
          carried |-> NULL]
    ELSE [ls |-> clearTokens(ls),
          authError |-> MissingTokensMsg,
          carried |-> InvalidCallbackMsg]

\* AuthCallback's effect at time t: the storage it leaves, the message it
\* passes to setAuthError and the authError it hands to navigate('/')
authCallback(ls, t, params) ==
    IF Truthy(params.error)
    THEN [ls |-> clearTokens(ls),
          authError |-> "Login failed: " \o ReplaceUnderscores(params.error)
                        \o ". Please try again.",
          carried |-> "Login failed: " \o ReplaceUnderscores(params.error) \o "."]
    ELSE IF Truthy(params.access_token) /\ Truthy(params.expires_in)
    THEN [ls |-> storeTokens(ls, t, params.access_token, params.refresh_token,
                             params.expires_in),
          authError |-> NULL,
          carried |-> NULL]
    ELSE [ls |-> ls,
          authError |-> MissingTokensMsg,
          carried |-> InvalidCallbackMsg]

\* fragments the browser may arrive with
AccessTokens == {NULL, "A"}
RefreshTokens == {NULL, "R"}
ExpiresIns == {NULL, "61", "61.5", "abc"}
CallbackErrors == {NULL, "access_denied"}
Fragments ==
    {Params(a, r, e, x) : a \in AccessTokens, r \in RefreshTokens,
                          e \in ExpiresIns, x \in CallbackErrors}
    \cup {Params("A", "R", "61", "a_b_c"),   \* an error with two underscores
          Params("", "R", "61", NULL),       \* access_token= (empty value)
          Params("A", "R", "", NULL),        \* expires_in=
          Params("A", "", "61", NULL),       \* refresh_token=
          Params("A", "R", "61", "")}        \* error=

\* ------------------------------------------------------- observation
\* what the step just taken did: the handler run (op), the storage and the
\* time it started from (ls0, t0), the request it dispatched (sent), the
\* request that settled and with what (req, resp), what fetchAPI returned and
\* the message it gave setError (ret, msg; for the callback: the message
\* given to setAuthError; for the mount: the carried reason given to
\* setError), and the fragment the callback parsed (params)
Last(op, sent, req, resp, ret, msg, params) ==
    [op |-> op, ls0 |-> localStorage, t0 |-> now, sent |-> sent, req |-> req,
     resp |-> resp, ret |-> ret, msg |-> msg, params |-> params]
NoParams == Params(NULL, NULL, NULL, NULL)
Plain(op) == Last(op, NoRequest, NoRequest, NothingSettled, NoBody, NULL, NoParams)

\* ------------------------------------------------------------- actions
Init ==
    /\ now = 0
    /\ localStorage = EmptyStorage
    /\ route = "home"
    /\ mounted = FALSE
    /\ historyState = NULL
    /\ isLoggedIn = FALSE
    /\ userData = NULL
    /\ isAuthLoading = TRUE
    /\ isConverting = FALSE
    /\ error = NULL
    /\ results = NULL
    /\ inflight = <<>>
    /\ last = Plain("init")

\* time passes
Tick(t) ==
    /\ t > now
    /\ now' = t
    /\ last' = Plain("tick")
    /\ UNCHANGED <<localStorage, route, mounted, historyState, isLoggedIn, userData,
                   isAuthLoading, isConverting, error, results, inflight>>

\* the browser loads "/" (a first visit or a refresh): MainApp is built anew,
\* what the previous page had in flight is gone
LoadHome ==
    /\ route' = "home"
    /\ mounted' = FALSE
    /\ Commit(InitialState(localStorage))
    /\ inflight' = <<>>
    /\ last' = Plain("load")
    /\ UNCHANGED <<now, historyState>>

\* the browser arrives at /auth/callback#<fragment>: AuthCallback's effect
\* runs and navigates to "/", where MainApp is built anew
AuthCallback(params) ==
    LET r == authCallback(localStorage, now, params)
    IN  /\ route' = "home"
        /\ mounted' = FALSE
        /\ historyState' = r.carried
        /\ Commit(InitialState(r.ls))
        /\ inflight' = <<>>
        /\ last' = Last("callback", NoRequest, NoRequest, NothingSettled,
                        NoBody, r.authError, params)
        /\ UNCHANGED now

\* MainApp's mount effects, in source order: the authError effect, then
\* checkAuthStatus() up to its await.  t is the time at which the request
\* interceptor runs, which is not before checkAuthStatus's own expiry test.
Mount(t) ==
    /\ route = "home" /\ ~mounted
    /\ t >= now
    /\ LET a == authErrorEffect(Cur, historyState)
           c == checkAuthStatusStart(a.st, now)
           i == interceptRequest(c.st.ls, t)
       IN  /\ mounted' = TRUE
           /\ historyState' = a.hs
           /\ IF c.go
              THEN /\ now' = t
                   /\ Commit([c.st EXCEPT !.ls = i.ls])
                   /\ inflight' = Append(inflight, Request("/auth/status", i.hdr))
                   /\ last' = Last("mount", Request("/auth/status", i.hdr),
                                   NoRequest, NothingSettled, NoBody, a.shown, NoParams)
              ELSE /\ t = now
                   /\ now' = now
                   /\ Commit(c.st)
                   /\ inflight' = inflight
                   /\ last' = Last("mount", NoRequest, NoRequest, NothingSettled,
                                   NoBody, a.shown, NoParams)
    /\ UNCHANGED route

\* the Login button: the browser leaves for the backend's login endpoint
HandleLogin ==
    /\ route = "home" /\ mounted
    /\ ~isAuthLoading /\ ~isLoggedIn /\ ~isConverting
    /\ route' = "away"
    /\ mounted' = FALSE
    /\ Commit(InitialState(localStorage))
    /\ inflight' = <<>>
    /\ last' = Plain("login")
    /\ UNCHANGED <<now, historyState>>

\* the Logout button
HandleLogout ==
    /\ route = "home" /\ mounted
    /\ ~isAuthLoading /\ isLoggedIn /\ Truthy(userData) /\ ~isConverting
    /\ Commit(handleLogout(Cur))
    /\ last' = Plain("logout")
    /\ UNCHANGED <<now, route, mounted, historyState, inflight>>

\* the conversion form is submitted (its button is enabled only when logged
\* in, not converting and with a playlist URL typed in)
HandleConvert ==
    /\ route = "home" /\ mounted
    /\ ~isAuthLoading /\ submitEnabled(Cur)
    /\ LET S1 == handleConvertStart(Cur)
           i == interceptRequest(S1.ls, now)
       IN  /\ Commit([S1 EXCEPT !.ls = i.ls])
           /\ inflight' = Append(inflight, Request("/convert", i.hdr))
           /\ last' = Last("convert", Request("/convert", i.hdr),
                           NoRequest, NothingSettled, NoBody, NULL, NoParams)
    /\ UNCHANGED <<now, route, mounted, historyState>>

Remove(q, k) == SubSeq(q, 1, k - 1) \o SubSeq(q, k + 1, Len(q))

\* variant: a request that failed is dispatched again
Settle_retries(k, resp) ==
    /\ route = "home" /\ mounted
    /\ k \in 1..Len(inflight)
    /\ LET req == inflight[k]
           f == fetchAPI(Cur, resp)
           S2 == IF req.endpoint = "/auth/status"
                 THEN IF f.thrown THEN checkAuthStatusCatch(f.st)
                      ELSE checkAuthStatusResume(f.st, f.data)
                 ELSE IF f.thrown THEN handleConvertCatch(f.st)
                      ELSE handleConvertResume(f.st, f.data)
       IN  /\ Commit(S2)
           /\ inflight' = IF resp.ok THEN Remove(inflight, k)
                         ELSE Append(Remove(inflight, k), req)
           /\ last' = Last("settle", NoRequest, req, resp, f.data,
                           f.msg, NoParams)
    /\ UNCHANGED <<now, route, mounted, historyState>>

\* request k settles with resp: fetchAPI resumes, then its caller
Settle(k, resp) ==
    /\ route = "home" /\ mounted
    /\ k \in 1..Len(inflight)
    /\ LET req == inflight[k]
           f == fetchAPI(Cur, resp)
           S2 == IF req.endpoint = "/auth/status"
                 THEN IF f.thrown THEN checkAuthStatusCatch(f.st)
                      ELSE checkAuthStatusResume(f.st, f.data)
                 ELSE IF f.thrown THEN handleConvertCatch(f.st)
                      ELSE handleConvertResume(f.st, f.data)
       IN  /\ Commit(S2)
           /\ inflight' = Remove(inflight, k)
           /\ last' = Last("settle", NoRequest, req, resp, f.data,
                           f.msg, NoParams)
    /\ UNCHANGED <<now, route, mounted, historyState>>

Next ==
    \/ \E t \in Instants : Tick(t)
    \/ LoadHome
    \/ \E params \in Fragments : AuthCallback(params)
    \/ \E t \in Instants : Mount(t)
    \/ HandleLogin
    \/ HandleLogout
    \/ HandleConvert
    \/ \E k \in 1..Len(inflight), resp \in Responses : Settle(k, resp)

Spec == Init /\ [][Next]_vars

\* every request in flight is eventually answered, or fails: the promise
\* fetchAPI awaits settles and its continuation runs
RequestsSettle ==
    WF_vars(\E k \in 1..Len(inflight), resp \in Responses : Settle(k, resp))

SpecLive == Init /\ [][Next]_vars /\ RequestsSettle

\* -------------------------------------------- the token store on its own
\* the store's functions called directly, with arguments the callback never
\* passes on (the callback tests them itself before it calls storeTokens)
SaveArgs ==
    {Params(a, r, e, NULL) : a \in {NULL, "", "A"}, r \in {NULL, "", "R"},
                             e \in {NULL, "", "61", "abc"}}

UiVars == <<route, mounted, historyState, isLoggedIn, userData, isAuthLoading,
            isConverting, error, results, inflight>>

\* a call storeTokens(accessToken, refreshToken, expiresIn)
StoreTokens(params) ==
    /\ localStorage' = storeTokens(localStorage, now, params.access_token,
                                   params.refresh_token, params.expires_in)
    /\ last' = Last("save", NoRequest, NoRequest, NothingSettled, NoBody,
                    storeTokensReturn(localStorage, now, params.access_token,
                                      params.refresh_token, params.expires_in),
                    params)
    /\ UNCHANGED <<now, UiVars>>

\* a call clearTokens()
ClearTokens ==
    /\ localStorage' = clearTokens(localStorage)
    /\ last' = Plain("clear")
    /\ UNCHANGED <<now, UiVars>>

NextStore ==
    \/ \E t \in Instants : Tick(t)
    \/ \E params \in SaveArgs : StoreTokens(params)
    \/ ClearTokens

SpecStore == Init /\ [][NextStore]_vars

\* ---------------------------------------------------------------- claims
\* the session states of the specification, read off MainApp's state
Authenticating == isAuthLoading
LoggedIn == ~isAuthLoading /\ isLoggedIn
LoggedOut == ~isAuthLoading /\ ~isLoggedIn

\* the expiry policy as the specification states it: a credential is valid
\* at t iff an expiry timestamp is recorded and t < expiryTimestampMs - 60000
ValidPerPolicy(ls, t) ==
    /\ ls.exp # NULL
    /\ ParseInt(ls.exp).k = "num"
    /\ t < ParseInt(ls.exp).v - 60000

Settled401 == last.op = "settle" /\ last.resp.hasResponse /\ last.resp.status = 401

\* C1: a backend call answered 401, whatever its body, leaves the three
\* storage entries removed and the session LoggedOut without a user record,
\* and the caller gets no data and the session-expired message.
C1_Unauthorized ==
    Settled401 =>
        /\ localStorage = EmptyStorage
        /\ LoggedOut /\ userData = NULL
        /\ ~last.ret.has
        /\ last.msg = SessionExpiredMsg
        /\ error = SessionExpiredMsg

\* a conversion submit answered 401 with a body of its own, while tokens
\* were stored
C1_Witness ==
    /\ Settled401
    /\ last.req.endpoint = "/convert"
    /\ last.resp.body.message = "M1"
    /\ last.ls0.at = "A" /\ last.ls0.rt = "R"

\* C2: logout removes the three storage entries, leaves the session
\* LoggedOut without a user record, clears the conversion result and the
\* error message, and dispatches no request.
C2_Logout ==
    last.op = "logout" =>
        /\ localStorage = EmptyStorage
        /\ LoggedOut /\ userData = NULL
        /\ results = NULL /\ error = NULL
        /\ last.sent = NoRequest /\ inflight = <<>>

\* a logout that had a full credential to remove
C2_Witness ==
    /\ last.op = "logout"
    /\ last.ls0.at = "A" /\ last.ls0.rt = "R" /\ last.ls0.exp # NULL

\* C3: a dispatched request carries the bearer header iff, at dispatch
\* time, an access token is stored and valid per the expiry policy; the
\* header then holds that token.
C3_BearerIffValid ==
    last.sent # NoRequest =>
        /\ last.sent.hdr # NULL <=>
             (last.ls0.at # NULL /\ ValidPerPolicy(last.ls0, now))
        /\ last.sent.hdr # NULL => last.sent.hdr = "Bearer " \o last.ls0.at

\* a request dispatched inside the last 60 s of a stored token: no header
C3_Witness ==
    /\ last.sent # NoRequest
    /\ last.ls0.at = "A"
    /\ last.ls0.exp # NULL /\ ParseInt(last.ls0.exp).k = "num"
    /\ now < ParseInt(last.ls0.exp).v
    /\ last.sent.hdr = NULL

\* C4: at every instant, the stored credential counts as not expired iff
\* an expiry timestamp is recorded and the instant is before it by more than
\* 60000 ms.
C4_ExpiryPolicy ==
    \A t \in Instants :
        ~isTokenExpired(localStorage, t) <=> ValidPerPolicy(localStorage, t)

\* the clock stands exactly on expiry - 60000 of a stored token, which is
\* expired there and was not one millisecond earlier
C4_Witness ==
    /\ localStorage.exp = "61000" /\ now = 1000
    /\ isTokenExpired(localStorage, now)
    /\ ~isTokenExpired(localStorage, now - 1)

\* C5: checkAuthStatus started without a stored access token, or with one
\* that is invalid per the expiry policy, ends LoggedOut and dispatches no
\* request.
C5_ShortCircuit ==
    (last.op = "mount" /\ (last.ls0.at = NULL \/ ~ValidPerPolicy(last.ls0, last.t0))) =>
        /\ LoggedOut /\ userData = NULL
        /\ last.sent = NoRequest /\ inflight = <<>>

\* a status check that found a stored token inside its last 60 s
C5_Witness ==
    /\ last.op = "mount"
    /\ last.ls0.at = "A" /\ last.ls0.exp = "61000"
    /\ last.t0 = 1000
    /\ LoggedOut

SettledStatusOk ==
    last.op = "settle" /\ last.req.endpoint = "/auth/status" /\ last.resp.ok

\* C6: a status check made with a valid credential (its request carried the
\* bearer header) and answered 2xx with a user record ends LoggedIn with
\* exactly that record, the storage as it was and no error message.
C6_StatusWithUser ==
    (SettledStatusOk /\ last.req.hdr # NULL /\ last.resp.body.has
        /\ last.resp.body.user # NULL) =>
        /\ LoggedIn
        /\ userData = last.resp.body.user
        /\ localStorage = last.ls0 /\ localStorage.at # NULL
        /\ error = NULL

\* the status request went out with the stored token and came back with u1
C6_Witness ==
    /\ SettledStatusOk
    /\ last.req.hdr = "Bearer A"
    /\ last.resp.body.user = "u1"
    /\ userData = "u1"

\* C7: a status check answered 2xx without a user record (no body, or a
\* body without user) clears the storage and ends LoggedOut.
C7_StatusWithoutUser ==
    (SettledStatusOk /\ (~last.resp.body.has \/ last.resp.body.user = NULL)) =>
        /\ localStorage = EmptyStorage
        /\ LoggedOut /\ userData = NULL

\* a 2xx body without user arrives while a full credential is stored
C7_Witness ==
    /\ SettledStatusOk
    /\ last.resp.body.has /\ last.resp.body.user = NULL
    /\ last.ls0.at = "A" /\ last.ls0.rt = "R"

\* a fragment parameter is present when params.get gives a non-empty string,
\* which is how the handler tests it
Present(v) == v # NULL /\ v # ""

\* the reason the specification prescribes for an error code
LoginFailedReason(err) ==
    CASE err = "access_denied" -> "Login failed: access denied."
      [] err = "a_b_c" -> "Login failed: a b c."

\* C8: a fragment with an error parameter, whatever else it carries, leaves
\* the storage empty (nothing of the fragment stored, what was stored
\* removed) and redirects home carrying "Login failed: <error, underscores
\* as spaces>.".
C8_CallbackError ==
    (last.op = "callback" /\ Present(last.params.error)) =>
        /\ localStorage = EmptyStorage
        /\ route = "home" /\ ~mounted
        /\ historyState = LoginFailedReason(last.params.error)

\* error=access_denied arrives together with a complete token set, while an
\* earlier credential is stored
C8_Witness ==
    /\ last.op = "callback"
    /\ last.params.error = "access_denied"
    /\ last.params.access_token = "A" /\ last.params.expires_in = "61"
    /\ last.ls0.at = "A"
    /\ historyState = "Login failed: access denied."

\* the first position from i on in s that holds no decimal digit
RECURSIVE DigitsEnd(_, _)
DigitsEnd(s, i) ==
    IF i <= Len(s) /\ IsDigit(SubSeq(s, i, i)) THEN DigitsEnd(s, i + 1) ELSE i

\* expires_in * 1000 as a number: the decimal numeral e (with at most one
\* fractional digit) times 1000, NaN for anything else
LifetimeMs(e) ==
    LET p == DigitsEnd(e, 1)
    IN  IF p = 1 THEN NaN
        ELSE IF p > Len(e) THEN Num(DigitRun(e, 1, 0) * 1000)
        ELSE IF SubSeq(e, p, p) = "." /\ Len(e) = p + 1 /\ IsDigit(SubSeq(e, p + 1, p + 1))
        THEN Num(DigitRun(e, 1, 0) * 1000 + DigitVal(SubSeq(e, p + 1, p + 1)) * 100)
        ELSE NaN

TokenCallback ==
    /\ last.op = "callback"
    /\ ~Present(last.params.error)
    /\ Present(last.params.access_token) /\ Present(last.params.expires_in)

\* C9: a fragment without error that carries an access token and a
\* lifetime value leaves that access token stored, the expiry timestamp
\* time of processing + expires_in * 1000, the refresh token stored iff the
\* fragment supplied one, and redirects home carrying no reason.
C9_CallbackStores ==
    TokenCallback =>
        /\ localStorage.at = last.params.access_token
        /\ LifetimeMs(last.params.expires_in).k = "num"
        /\ localStorage.exp =
             NatToString(last.t0 + LifetimeMs(last.params.expires_in).v)
        /\ localStorage.rt =
             (IF Present(last.params.refresh_token) THEN last.params.refresh_token
              ELSE NULL)
        /\ route = "home" /\ ~mounted
        /\ historyState = NULL

\* C9, for lifetimes that are plain decimal integers, holds: the expiry
\* stored is the time of processing + expires_in * 1000.
C9_IntegerLifetime ==
    (TokenCallback /\ DigitsEnd(last.params.expires_in, 1) > Len(last.params.expires_in)) =>
        /\ localStorage.at = last.params.access_token
        /\ localStorage.exp =
             NatToString(last.t0 + LifetimeMs(last.params.expires_in).v)
        /\ localStorage.rt =
             (IF Present(last.params.refresh_token) THEN last.params.refresh_token
              ELSE NULL)
        /\ historyState = NULL

MalformedCallback ==
    /\ last.op = "callback"
    /\ ~Present(last.params.error)
    /\ ~Present(last.params.access_token) \/ ~Present(last.params.expires_in)

\* C10 as stated: a fragment without error that lacks the access token or
\* the lifetime value leaves the storage empty and redirects home carrying
\* the generic invalid-callback reason.
C10_MalformedClears ==
    MalformedCallback =>
        /\ localStorage = EmptyStorage
        /\ route = "home" /\ ~mounted
        /\ historyState = "Invalid authentication callback received."

\* C10, amended: a fragment without error that lacks the access token or
\* the lifetime value leaves the storage exactly as it was and redirects
\* home carrying the generic invalid-callback reason.
C10_MalformedKeeps ==
    MalformedCallback =>
        /\ localStorage = last.ls0
        /\ route = "home" /\ ~mounted
        /\ historyState = "Invalid authentication callback received."
        /\ last.msg = MissingTokensMsg

\* a fragment with an access token but no lifetime arrives while a full
\* credential is stored, and the credential is still there afterwards
C10_Witness ==
    /\ MalformedCallback
    /\ last.params.access_token = "A" /\ last.params.expires_in = NULL
    /\ last.ls0.at = "A" /\ last.ls0.rt = "R"
    /\ localStorage.at = "A"

\* C11: when the home route mounts with a carried failure reason and its
\* mount-time processing has settled, the error message on screen is the
\* carried reason.
C11_ReasonShown ==
    (last.op = "mount" /\ Truthy(last.msg) /\ ~isAuthLoading) =>
        error = last.msg

\* C12: once the home route has read the carried reason the history entry
\* holds none, and a mount that finds none in the history entry shows none.
C12_ConsumedOnce ==
    [][/\ mounted' => historyState' = NULL
       /\ (historyState = NULL /\ last'.op = "mount") => last'.msg = NULL]_vars

\* the home route has mounted after an access_denied callback and passed the
\* reason to setError; the history entry no longer carries it
C12_Witness ==
    /\ last.op = "mount"
    /\ last.msg = "Login failed: access denied."
    /\ route = "home" /\ mounted
    /\ historyState = NULL

ConvertSettled == last.op = "settle" /\ last.req.endpoint = "/convert"

\* C13: a 2xx conversion response flagged unsuccessful that carries a data
\* payload, with or without an error field, leaves that payload as the
\* visible result.
C13_PartialShown ==
    (/\ ConvertSettled
     /\ last.resp.ok /\ last.resp.body.has
     /\ ~last.resp.body.success
     /\ Truthy(last.resp.body.data)) =>
        results = last.resp.body.data

\* the response of a settled conversion carries no usable payload: a gateway
\* error, an empty body, or a body without data
NoUsablePayload ==
    \/ ~last.resp.ok
    \/ ~last.resp.body.has
    \/ Falsy(last.resp.body.data)

\* C14: a conversion that completes without a usable payload ends with no
\* result and a non-empty error message, and no completed conversion ends
\* with neither a result nor an error message.
C14_FailureHasMessage ==
    ConvertSettled =>
        /\ NoUsablePayload => (results = NULL /\ Truthy(error))
        /\ results # NULL \/ Truthy(error)

\* C15: a new submission leaves neither result nor error message on screen
\* when its request is dispatched, and a settled conversion shows either no
\* result or exactly the payload of its own response.
C15_OneResult ==
    /\ last.op = "convert" =>
          /\ results = NULL /\ error = NULL
          /\ last.sent.endpoint = "/convert"
    /\ ConvertSettled => results \in {NULL, last.resp.body.data}
    /\ results \in {NULL} \cup Payloads

\* a conversion settles with payload P2 and an error field: P2 is the result
\* on screen, beside the error
C15_Witness ==
    /\ ConvertSettled
    /\ last.resp.body.data = "P2" /\ last.resp.body.error = "E1"
    /\ results = "P2" /\ error = "E1"

\* a step dispatches a /convert request
ConvertDispatched ==
    /\ Len(inflight') > Len(inflight)
    /\ inflight'[Len(inflight')].endpoint = "/convert"

\* C16: from a state where the session is not LoggedIn no step dispatches a
\* /convert request, and where it is not LoggedIn the form cannot be
\* submitted.
C16_NoConvertLoggedOut ==
    [][/\ ~LoggedIn => ~ConvertDispatched
       /\ ~isLoggedIn => ~submitEnabled(Cur)]_vars

\* the status check has settled without a user: the home route is mounted
\* and logged out, the form is disabled and nothing is in flight
C16_Witness ==
    /\ route = "home" /\ mounted
    /\ LoggedOut
    /\ ~submitEnabled(Cur)
    /\ inflight = <<>>
    /\ last.op = "settle"

\* a save was called without an access token or without a lifetime value
SaveRejected ==
    /\ last.op = "save"
    /\ ~Present(last.params.access_token) \/ ~Present(last.params.expires_in)

\* a save was called with an access token and a lifetime value
SaveAccepted ==
    /\ last.op = "save"
    /\ Present(last.params.access_token) /\ Present(last.params.expires_in)

\* C17: a save without an access token or without a lifetime value leaves the
\* three storage entries as they were before the call, and the same call
\* made again leaves them so.
C17_RejectedSaveNoOp ==
    SaveRejected =>
        /\ localStorage = last.ls0
        /\ storeTokens(localStorage, now, last.params.access_token,
                       last.params.refresh_token, last.params.expires_in)
             = localStorage

\* a save with an access token but no lifetime value is made while a full
\* credential is stored, and the credential is still there
C17_Witness ==
    /\ SaveRejected
    /\ last.params.access_token = "A" /\ last.params.expires_in = NULL
    /\ last.ls0.at = "A" /\ last.ls0.rt = "R" /\ last.ls0.exp # NULL
    /\ localStorage = last.ls0

\* C18: the outcome of a save without an access token or without a lifetime
\* value differs from the outcome the same call has with both supplied.
C18_RejectionReported ==
    SaveRejected =>
        last.msg # storeTokensReturn(last.ls0, last.t0, "A",
                                     last.params.refresh_token, "61")

\* C19: after a save with an access token and a lifetime value the stored
\* refresh token is the one the call supplied, and none if it supplied none.
C19_RefreshOnlyIfSupplied ==
    SaveAccepted =>
        /\ localStorage.at = last.params.access_token
        /\ localStorage.rt = IF Present(last.params.refresh_token)
                             THEN last.params.refresh_token ELSE NULL

\* a save without a refresh token is made while a refresh token is stored,
\* and none is stored afterwards
C19_Witness ==
    /\ SaveAccepted
    /\ ~Present(last.params.refresh_token)
    /\ last.ls0.rt = "R"
    /\ localStorage.at = "A" /\ localStorage.rt = NULL

\* C20: a status check answered 401 leaves the session LoggedOut and no error
\* message on screen.
C20_NoBannerOnStatus401 ==
    (Settled401 /\ last.req.endpoint = "/auth/status") =>
        /\ LoggedOut
        /\ error = NULL

\* a backend call settled with a failure other than a 401 response: another
\* non-2xx status, no response, or a request that could not be set up
SettledOtherFailure ==
    /\ last.op = "settle"
    /\ ~last.resp.ok
    /\ ~(last.resp.hasResponse /\ last.resp.status = 401)

\* C21: a status check whose backend call fails with anything other than 401
\* leaves a non-empty error message on screen, the one fetchAPI computed,
\* and the session LoggedOut without a user record.
C21_StatusFailureSurfaced ==
    (SettledOtherFailure /\ last.req.endpoint = "/auth/status") =>
        /\ Truthy(error) /\ error = last.msg
        /\ LoggedOut /\ userData = NULL

\* a status check with a stored token ends in a network error: the
\* no-response message is on screen and the session is LoggedOut
C21_Witness ==
    /\ SettledOtherFailure /\ last.req.endpoint = "/auth/status"
    /\ ~last.resp.hasResponse /\ last.resp.request
    /\ last.req.hdr = "Bearer A"
    /\ error = NoResponseMsg
    /\ LoggedOut

\* the message the specification prescribes for a non-2xx response other
\* than 401
RequestFailedMessage(resp) ==
    IF Present(resp.body.message) THEN resp.body.message
    ELSE IF Present(resp.body.error) THEN resp.body.error
    ELSE "Request failed with status " \o NatToString(resp.status)

\* C22: for a non-2xx response other than 401 the message surfaced is the
\* body's message, else the body's error, else "Request failed with status
\* <status>", and a conversion answered so leaves the storage as it was.
C22_MessagePreference ==
    (SettledOtherFailure /\ last.resp.hasResponse) =>
        /\ last.msg = RequestFailedMessage(last.resp)
        /\ error = last.msg
        /\ last.req.endpoint = "/convert" => localStorage = last.ls0

\* C23: the message surfaced when no response was received is surfaced for
\* no call that received a non-2xx response.
C23_UnreachableDistinct ==
    last.op = "settle" =>
        /\ (~last.resp.ok /\ ~last.resp.hasResponse /\ last.resp.request)
              => last.msg = NoResponseMsg
        /\ (~last.resp.ok /\ last.resp.hasResponse)
              => last.msg # NoResponseMsg

\* C24: whatever the request settled with, fetchAPI does not throw: it
\* returns the response body of a 2xx answer and otherwise null with a
\* message set, and that is what its caller went on with.
C24_NeverThrows ==
    [][last'.op = "settle" =>
          LET f == fetchAPI(Cur, last'.resp)
          IN  /\ ~f.thrown
              /\ last'.ret = f.data /\ last'.msg = f.msg
              /\ last'.resp.ok => f.data = last'.resp.body
              /\ ~last'.resp.ok => (~f.data.has /\ Truthy(f.msg))]_vars

\* a conversion whose request could not be set up has settled: axios's own
\* message is on screen and the form is enabled again
C24_Witness ==
    /\ ConvertSettled
    /\ ~last.resp.ok /\ ~last.resp.hasResponse /\ ~last.resp.request
    /\ ~last.ret.has
    /\ error = "Invalid URL"
    /\ ~isConverting

\* C25: a step dispatches at most one request; a settling request, failed or
\* not, is taken out and none is dispatched in its place; a submission
\* dispatches exactly its POST /convert, a mount at most its GET
\* /auth/status, and logout, login, the callback and a reload dispatch none.
C25_NoRetry ==
    [][/\ Len(inflight') <= Len(inflight) + 1
       /\ last'.op = "settle" => Len(inflight') = Len(inflight) - 1
       /\ last'.op = "convert" =>
             /\ inflight' = Append(inflight, last'.sent)
             /\ last'.sent.endpoint = "/convert"
       /\ last'.op = "mount" =>
             \/ inflight' = inflight /\ last'.sent = NoRequest
             \/ /\ inflight' = Append(inflight, last'.sent)
                /\ last'.sent.endpoint = "/auth/status"
       /\ last'.op = "logout" => inflight' = inflight
       /\ last'.op \in {"login", "callback", "load"} => inflight' = <<>>]_vars

\* a conversion answered 500 has settled and nothing is in flight
C25_Witness ==
    /\ ConvertSettled
    /\ last.resp.hasResponse /\ last.resp.status = 500
    /\ inflight = <<>>

\* at most one request is in flight on a page
OneInFlight == Len(inflight) <= 1

\* logout, a submission and a mount only happen with nothing in flight, so no
\* two flows overlap and none is outstanding when logout completes
NoOverlap ==
    [][last'.op \in {"logout", "convert", "mount"} => inflight = <<>>]_vars

\* a mount or a submission dispatched a request while an access token was
\* stored that the expiry policy counts as invalid at the time of dispatch
DispatchedWithInvalidToken ==
    /\ last.op \in {"mount", "convert"}
    /\ last.sent # NoRequest
    /\ Truthy(last.ls0.at)
    /\ ~ValidPerPolicy(last.ls0, now)

\* C28: a request dispatched while the stored access token is invalid per
\* the expiry policy leaves the three storage entries removed and is in
\* flight without an Authorization header.
C28_ExpiredDiscarded ==
    DispatchedWithInvalidToken =>
        /\ localStorage = EmptyStorage
        /\ last.sent.hdr = NULL
        /\ inflight # <<>> /\ inflight[Len(inflight)] = last.sent

\* a conversion is submitted after the stored credential (access token,
\* refresh token, expiry) has run out: the storage is empty and POST
\* /convert is in flight without a header
C28_Witness ==
    /\ DispatchedWithInvalidToken
    /\ last.op = "convert"
    /\ last.ls0.at = "A" /\ last.ls0.rt = "R" /\ last.ls0.exp # NULL
    /\ localStorage = EmptyStorage
    /\ inflight = <<Request("/convert", NULL)>>

\* C29: a backend call that fails with anything other than 401 leaves the
\* three storage entries as they were when it settled.
C29_FailureKeepsTokens ==
    SettledOtherFailure => localStorage = last.ls0

\* the steps that start the home route anew
RouteStarts == {"load", "callback", "login"}

\* C30: the session is Authenticating at first and after every start of the
\* route; it becomes Authenticating by a start only, and LoggedIn only from
\* Authenticating, by a status check that received a user record.
C30_Edges ==
    /\ isAuthLoading = TRUE
    /\ [][/\ last'.op \in RouteStarts => Authenticating'
          /\ (Authenticating' /\ ~Authenticating) => last'.op \in RouteStarts
          /\ (LoggedIn' /\ ~LoggedIn) =>
                /\ Authenticating
                /\ last'.op = "settle"
                /\ last'.req.endpoint = "/auth/status"
                /\ last'.resp.ok /\ Truthy(last'.ret.user)
                /\ userData' = last'.ret.user
          /\ (LoggedOut' /\ ~LoggedOut) => (LoggedIn \/ Authenticating)]_vars

\* the status check of a mount has been answered with the user record u1 and
\* the session is LoggedIn
C30_Witness ==
    /\ LoggedIn
    /\ last.op = "settle" /\ last.req.endpoint = "/auth/status"
    /\ userData = "u1"

\* C31: the access token entry and the expiry entry are stored together or
\* not at all, and a refresh token entry is stored only beside an access
\* token entry.
C31_TripleConsistent ==
    /\ (localStorage.at # NULL) <=> (localStorage.exp # NULL)
    /\ (localStorage.rt # NULL) => (localStorage.at # NULL)

\* a logout has removed a stored credential that held a refresh token: no
\* entry is left
C31_Witness ==
    /\ last.op = "logout"
    /\ last.ls0.at = "A" /\ last.ls0.rt = "R" /\ last.ls0.exp # NULL
    /\ localStorage = EmptyStorage

\* C33: the session is marked logged in exactly when a user record is held.
C33_FlagAndUserAgree ==
    isLoggedIn <=> Truthy(userData)

\* a conversion, which only a logged-in session with a user record submits,
\* was answered 401: the flag and the user record are both dropped
C33_Witness ==
    /\ Settled401 /\ last.req.endpoint = "/convert"
    /\ last.req.hdr = "Bearer A"
    /\ ~isLoggedIn /\ userData = NULL

\* C32 as stated: whenever the session is LoggedIn an access token is stored.
C32_LoggedInHasToken ==
    LoggedIn => Truthy(localStorage.at)

\* C32, amended: the session is LoggedIn without a stored access token only
\* after the interceptor discarded an invalid one at dispatch: a step ends
\* LoggedIn with no access token stored only if it began so, or is a
\* submission dispatched with a token invalid per the expiry policy, or is
\* a status check settling whose request left without a header after its
\* token was discarded.
C32_LoggedInEmptyOnlyByDiscard ==
    [][(LoggedIn' /\ localStorage'.at = NULL) =>
          \/ LoggedIn /\ localStorage.at = NULL
          \/ /\ last'.op = "convert"
             /\ LoggedIn
             /\ Truthy(localStorage.at) /\ ~ValidPerPolicy(localStorage, now)
             /\ last'.sent.hdr = NULL
          \/ /\ last'.op = "settle"
             /\ Authenticating
             /\ localStorage.at = NULL
             /\ last'.req.endpoint = "/auth/status" /\ last'.req.hdr = NULL]_vars

\* a logged-in session submits a conversion after its token has expired:
\* the interceptor has emptied the storage and the session is still LoggedIn
C32_Witness ==
    /\ last.op = "convert"
    /\ last.ls0.at = "A"
    /\ last.sent.hdr = NULL
    /\ localStorage = EmptyStorage
    /\ LoggedIn /\ userData = "u1"

\* C34: with every request in flight eventually settled, a mounted home
\* route that shows the loading screen eventually leaves it (or the page is
\* left), and a conversion in progress eventually is no longer in progress.
C34_NotStuckBusy ==
    /\ (mounted /\ isAuthLoading) ~> (~isAuthLoading \/ ~mounted)
    /\ isConverting ~> ~isConverting

\* a conversion has settled with a successful answer: its payload is the
\* result and the in-progress flag is cleared
C34_Witness ==
    /\ ConvertSettled
    /\ last.resp.ok /\ last.resp.body.success
    /\ results = "P1"
    /\ ~isConverting /\ ~isAuthLoading

====
